---- MODULE Spec2Model ----
(***************************************************************************)
(* Model of the ethereum-storage anchoring engine of requestNetwork:       *)
(* SmartContractManager (smart-contract-manager.ts) with the range-split   *)
(* retrieval of past events, the enrichment of events with metadata, the   *)
(* confirmation-driven submission, and the EthereumStorage facade.         *)
(***************************************************************************)
EXTENDS Integers, Sequences, FiniteSets, TLC

VARIABLES
    ledger,     \* the NewHash/other events of the contract, in block order
    head,       \* number of the last mined block
    cfg,        \* constructor options and the provider's result limit
    call,       \* the running read operation of SmartContractManager
    tasks,      \* recursiveGetPastEvents invocations, by path in the split tree
    issued,     \* how often each range was sent to getPastEvents
    faults,     \* transient provider failures still to come
    lookups,    \* Bluebird.map over the events: per index, the state of the mapper
    tx,         \* the running addHashAndSizeToEthereum call and its transaction
    ipfs,       \* the content store: the contents by content id
    facade,     \* the running operation of EthereumStorage
    ethereumBlocks  \* EthereumBlocks: the last block number it has fetched

vars == <<ledger, head, cfg, call, tasks, issued, faults, lookups, tx, ipfs, facade,
          ethereumBlocks>>

----------------------------------------------------------------------------
(* Bounds of the model *)

MaxBlock == 3
MaxEvents == 3
MaxDepth == 2
MaxFaults == 1
EthereumMaxRetries == 1

(* Program constants *)

LENGTH_BYTES32_STRING == 64
CREATING_ETHEREUM_METADATA_MAX_ATTEMPTS == 23

Undefined == "undefined"
NoLimit == MaxEvents

----------------------------------------------------------------------------
(* web3Utils: the fee parameter is the content size as a left-padded hex *)
(* string of LENGTH_BYTES32_STRING digits; a digit is a number 0..15.    *)

RECURSIVE toHexDigits(_)
toHexDigits(n) ==
    IF n < 16 THEN <<n>> ELSE Append(toHexDigits(n \div 16), n % 16)

\* a conversion that keeps the low byte of the number
toHex_lowByte(n) == toHexDigits(n % 256)

toHex(n) == toHexDigits(n)

padLeft(s, width) ==
    IF Len(s) >= width THEN s
    ELSE [i \in 1..(width - Len(s)) |-> 0] \o s

RECURSIVE hexToNumber(_)
hexToNumber(s) ==
    IF s = <<>> THEN 0
    ELSE 16 * hexToNumber(SubSeq(s, 1, Len(s) - 1)) + s[Len(s)]

feesParametersAsBytes(contentSize) == padLeft(toHex(contentSize), LENGTH_BYTES32_STRING)

----------------------------------------------------------------------------
(* The ledger *)

mockBlocksEthereum == <<7, 30, 45, 87, 100, 150, 209, 234, 290, 306>>

BlockTimestamp(b) == mockBlocksEthereum[b + 1]

hashStr == "QmNX"
otherContent == "other"
realSize == 29
fakeSize == 50

\* The events the contract can emit, as web3 hands them over: a well-formed
\* NewHash, one with a wrong declared size, one of size 0, a NewHash without
\* its hash, one without its feesParameters, and an event that is no NewHash.
EventShapes ==
    { [event |-> "NewHash", hash |-> hashStr, feesParameters |-> feesParametersAsBytes(realSize)],
      [event |-> "NewHash", hash |-> hashStr, feesParameters |-> feesParametersAsBytes(fakeSize)],
      [event |-> "NewHash", hash |-> otherContent, feesParameters |-> feesParametersAsBytes(0)],
      [event |-> "NewHash", hash |-> Undefined, feesParameters |-> feesParametersAsBytes(fakeSize)],
      [event |-> "NewHash", hash |-> hashStr, feesParameters |-> <<>>],
      [event |-> "Other", hash |-> Undefined, feesParameters |-> <<>>] }

MkEvent(shape, b, transactionHash) ==
    [blockNumber |-> b, event |-> shape.event,
     returnValues |-> [hash |-> shape.hash, feesParameters |-> shape.feesParameters],
     transactionHash |-> transactionHash]

otherSize == 100000

\* the events of the mocked contract, in blocks 0, 4, 6 and 9
pastEventsMock ==
    << MkEvent([event |-> "NewHash", hash |-> hashStr,
                feesParameters |-> feesParametersAsBytes(realSize)], 0, 1),
       MkEvent([event |-> "NewHash", hash |-> hashStr,
                feesParameters |-> feesParametersAsBytes(fakeSize)], 4, 2),
       MkEvent([event |-> "NewHash", hash |-> otherContent,
                feesParameters |-> feesParametersAsBytes(otherSize)], 6, 3),
       MkEvent([event |-> "NewHash", hash |-> otherContent,
                feesParameters |-> feesParametersAsBytes(otherSize)], 9, 4) >>

LastBlock == Len(mockBlocksEthereum) - 1

\* getPastEvents of the provider, without a result limit
getPastEventsMock(l, fromBlock, toBlock) ==
    SelectSeq(l, LAMBDA e: e.blockNumber >= fromBlock /\ e.blockNumber <= toBlock)

\* the provider answers 'query returned more than XXX results'
moreThanXXXResults(l, fromBlock, toBlock, limit) ==
    Len(getPastEventsMock(l, fromBlock, toBlock)) > limit

----------------------------------------------------------------------------
(* Configuration and helpers *)

\* this.maxRetries || config.getEthereumMaxRetries()
maxRetriesUsed(c) == IF c.maxRetries # 0 THEN c.maxRetries ELSE EthereumMaxRetries

\* Utils.retry: another attempt follows a failure while retries are left
retry(attempts, maxRetries) == attempts < maxRetries

Number(n) == [tag |-> "number", n |-> n]
Tag(t) == [tag |-> t, n |-> 0]

NoTasks == [p \in {} |-> 0]
NoContents == [id \in {} |-> <<>>]
NoFacade ==
    [op |-> "idle", pc |-> "idle", content |-> "", id |-> "", size |-> 0,
     status |-> "pending", error |-> "", bytes |-> "", dataIds |-> <<>>, failed |-> {},
     meta |-> [blockNumber |-> 0, transactionHash |-> 0],
     returned |-> {}]
NoRanges == [r \in {} |-> 0]

Idle ==
    [op |-> "idle", pc |-> "idle", contentHash |-> "", from |-> 0, to |-> 0,
     fromBlock |-> 0, toBlock |-> Tag("latest"), resolvedFrom |-> 0, resolvedTo |-> -1,
     toBlockNumber |-> -1, events |-> <<>>, status |-> "pending", error |-> "", value |-> <<>>]

Issue(bag, fromBlock, toBlock) ==
    LET r == <<fromBlock, toBlock>>
    IN  IF r \in DOMAIN bag THEN [bag EXCEPT ![r] = @ + 1] ELSE bag @@ (r :> 1)

Task(fromBlock, toBlock) ==
    [fromBlock |-> fromBlock, toBlock |-> toBlock, st |-> "querying", attempts |-> 0,
     events |-> <<>>, error |-> ""]

Fail(c, error) == [c EXCEPT !.pc = "done", !.status = "error", !.error = error]

Succeed(c, value) == [c EXCEPT !.pc = "done", !.status = "ok", !.value = value]

\* Math.floor((fromBlock + toBlockNumber) / 2)
intervalHalf(fromBlock, toBlockNumber) == (fromBlock + toBlockNumber) \div 2

Halves_overlapping(fromBlock, toBlockNumber) ==
    << <<fromBlock, intervalHalf(fromBlock, toBlockNumber)>>,
       <<intervalHalf(fromBlock, toBlockNumber), toBlockNumber>> >>

\* the two recursive calls of the split branch
Halves(fromBlock, toBlockNumber) ==
    << <<fromBlock, intervalHalf(fromBlock, toBlockNumber)>>,
       <<intervalHalf(fromBlock, toBlockNumber) + 1, toBlockNumber>> >>

flatten2DimensionsArray_reversed(halves) == halves[2] \o halves[1]

\* Utils.flatten2DimensionsArray(halves)
flatten2DimensionsArray(halves) == halves[1] \o halves[2]

\* a count of what is left to the last block, which shrinks as the head grows
getConfirmationNumber_remaining(blockNumber, h) == MaxBlock - h

\* EthereumBlocks.getConfirmationNumber: the head minus the block number
getConfirmationNumber(blockNumber, h) == h - blockNumber

createEthereumMetaData(blockNumber, transactionHash, h) ==
    [blockNumber |-> blockNumber, transactionHash |-> transactionHash,
     blockConfirmation |-> getConfirmationNumber(blockNumber, h),
     blockTimestamp |-> BlockTimestamp(blockNumber)]

----------------------------------------------------------------------------
(* EthereumBlocks: the number of the last block is fetched from the chain, *)
(* and not again before getLastBlockNumberDelay has passed                *)

EthereumBlocks(getLastBlockNumberDelay) ==
    [getLastBlockNumberDelay |-> getLastBlockNumberDelay, lastBlockNumber |-> 0,
     throttled |-> FALSE]

\* the last block number a call gets, when the chain is at block h
getLastBlockNumber(blocks, h) ==
    IF blocks.throttled THEN blocks.lastBlockNumber ELSE h

\* EthereumBlocks after a call has asked for the last block number; with no
\* delay the number is fetched by every call and nothing is kept
afterGetLastBlockNumber(blocks, h) ==
    IF blocks.throttled \/ blocks.getLastBlockNumberDelay = 0 THEN blocks
    ELSE [blocks EXCEPT !.lastBlockNumber = h, !.throttled = TRUE]

\* getLastBlockNumberDelay has passed since the last fetch
DelayElapses ==
    /\ ethereumBlocks.throttled
    /\ ethereumBlocks' = [ethereumBlocks EXCEPT !.throttled = FALSE, !.lastBlockNumber = 0]
    /\ UNCHANGED <<ledger, head, cfg, call, tasks, issued, faults, lookups, tx, ipfs, facade>>

----------------------------------------------------------------------------
(* The ledger grows: a block is mined, with the events of its transactions *)

Shapes(n) == UNION { [1..k -> EventShapes] : k \in 0..n }

MineWith(shapes, perBlock) ==
    /\ head < MaxBlock
    /\ \E evs \in Shapes(perBlock) :
          /\ \A i \in 1..Len(evs) : evs[i] \in shapes
          /\ Len(ledger) + Len(evs) <= MaxEvents
          /\ ledger' = ledger \o
                [i \in 1..Len(evs) |-> MkEvent(evs[i], head + 1, Len(ledger) + i)]
    /\ head' = head + 1

----------------------------------------------------------------------------
(* EthereumBlocks.getBlockNumbersFromTimestamp, over [creationBlock, head] *)

\* a search that answers with the first block when no block comes after
blockAfter_first(timestamp, creationBlock, h) ==
    LET S == { b \in creationBlock..h : BlockTimestamp(b) >= timestamp }
    IN  IF S = {} THEN creationBlock ELSE CHOOSE b \in S : \A c \in S : b <= c

blockAfter(timestamp, creationBlock, h) ==
    LET S == { b \in creationBlock..h : BlockTimestamp(b) >= timestamp }
    IN  IF S = {} THEN h ELSE CHOOSE b \in S : \A c \in S : b <= c

blockBefore(timestamp, creationBlock, h) ==
    LET S == { b \in creationBlock..h : BlockTimestamp(b) <= timestamp }
    IN  IF S = {} THEN creationBlock ELSE CHOOSE b \in S : \A c \in S : b >= c

\* the timestamps a caller asks for; 0 stands for an absent bound
Timestamps == {0, 7, 40}

----------------------------------------------------------------------------
(* getMetaFromEthereum(contentHash) *)

\* the events are read from the creation block of the contract to 'latest'
getMetaCall(contentHash, creationBlock) ==
    [Idle EXCEPT !.op = "getMeta", !.pc = "resolve", !.contentHash = contentHash,
                 !.fromBlock = creationBlock, !.toBlock = Tag("latest")]

StartGetMeta ==
    /\ call.pc = "idle"
    /\ \E h \in {hashStr} : call' = getMetaCall(h, cfg.creationBlock)
    /\ tasks' = NoTasks
    /\ issued' = NoRanges
    /\ lookups' = <<>>
    /\ UNCHANGED <<ledger, head, cfg, faults, tx, ipfs, facade, ethereumBlocks>>

(* getHashesAndSizesFromEthereum(options), up to the first range query: *)
(* the bounds are resolved, checked, and getHashesAndSizesFromEvents    *)
(* clamps fromBlock and replaces a falsy toBlock by 'latest'            *)

fromBlockOf_blockBefore(from, creationBlock, h) ==
    IF from # 0 THEN blockBefore(from, creationBlock, h) ELSE creationBlock

toBlockOf_blockAfter(to, creationBlock, h) ==
    IF to # 0 THEN blockAfter(to, creationBlock, h) ELSE -1

fromBlockOf(from, creationBlock, h) ==
    IF from # 0 THEN blockAfter(from, creationBlock, h) ELSE creationBlock

\* -1 stands for undefined
toBlockOf(to, creationBlock, h) ==
    IF to # 0 THEN blockBefore(to, creationBlock, h) ELSE -1

\* if (toBlock && toBlock < fromBlock)
toBlockBelowFromBlock(fromBlock, toBlock) ==
    toBlock # -1 /\ toBlock # 0 /\ toBlock < fromBlock

\* fromBlock < creationBlockNumberHashStorage ? creationBlockNumberHashStorage : fromBlock
clampFromBlock(fromBlock, creationBlock) ==
    IF fromBlock < creationBlock THEN creationBlock ELSE fromBlock

\* toBlock || 'latest'
toBlockOrLatest(toBlock) ==
    IF toBlock = -1 \/ toBlock = 0 THEN Tag("latest") ELSE Number(toBlock)

listCall(from, to, creationBlock, h) ==
    LET fromBlock == fromBlockOf(from, creationBlock, h)
        toBlock == toBlockOf(to, creationBlock, h)
        c == [Idle EXCEPT !.op = "list", !.from = from, !.to = to,
                          !.resolvedFrom = fromBlock, !.resolvedTo = toBlock]
    IN  IF toBlockBelowFromBlock(fromBlock, toBlock)
        THEN Fail(c, "toBlock must be larger than fromBlock")
        ELSE [c EXCEPT !.pc = "resolve",
                       !.fromBlock = clampFromBlock(fromBlock, creationBlock),
                       !.toBlock = toBlockOrLatest(toBlock)]

StartListWith(timestamps) ==
    /\ call.pc = "idle"
    /\ \E from \in timestamps, to \in timestamps :
          /\ call' = listCall(from, to, cfg.creationBlock,
                              getLastBlockNumber(ethereumBlocks, head))
          /\ ethereumBlocks' = IF from # 0 \/ to # 0
                               THEN afterGetLastBlockNumber(ethereumBlocks, head)
                               ELSE ethereumBlocks
    /\ tasks' = NoTasks
    /\ issued' = NoRanges
    /\ lookups' = <<>>
    /\ UNCHANGED <<ledger, head, cfg, faults, tx, ipfs, facade>>

StartList == StartListWith(Timestamps)

\* the timestamps asked for on the mocked chain of ten blocks
MockTimestamps == {0, 7, 10, 30, 299, 306, 400}

StartListOnMock == StartListWith(MockTimestamps)

----------------------------------------------------------------------------
(* recursiveGetPastEvents *)

\* getBlockNumberFromNumberOrString: -1 when the block has no number; a
\* number 0 is falsy as well (!blockObject.number)
getBlockNumberFromNumberOrString(block, h) ==
    IF block.tag = "number" THEN block.n
    ELSE IF block.tag = "latest" /\ h # 0 THEN h
    ELSE -1

\* the first call: the number of toBlock is resolved and the range is queried
ResolveToBlock ==
    /\ call.pc = "resolve"
    /\ \E thrown \in BOOLEAN :
          /\ thrown => (call.toBlock.tag # "number" /\ faults > 0)
          /\ faults' = IF thrown THEN faults - 1 ELSE faults
          /\ LET n == getBlockNumberFromNumberOrString(call.toBlock, head)
             IN  IF thrown
                 THEN /\ call' = Fail(call, "Cannot get the number of the block")
                      /\ UNCHANGED <<tasks, issued>>
                 ELSE IF n = -1
                 THEN /\ call' = Fail(call, "Block has no number")
                      /\ UNCHANGED <<tasks, issued>>
                 ELSE /\ call' = [call EXCEPT !.pc = "events", !.toBlockNumber = n]
                      /\ tasks' = (<<>> :> Task(call.fromBlock, n))
                      /\ issued' = Issue(issued, call.fromBlock, n)
    /\ UNCHANGED <<ledger, head, cfg, lookups, tx, ipfs, facade, ethereumBlocks>>

\* getPastEvents answers with the events of the range
ProviderAnswers ==
    /\ \E p \in DOMAIN tasks :
          /\ tasks[p].st = "querying"
          /\ ~moreThanXXXResults(ledger, tasks[p].fromBlock, tasks[p].toBlock, cfg.limit)
          /\ tasks' = [tasks EXCEPT ![p].st = "done",
                          ![p].events = getPastEventsMock(ledger, tasks[p].fromBlock, tasks[p].toBlock)]
    /\ UNCHANGED <<ledger, head, cfg, call, issued, faults, lookups, tx, ipfs, facade, ethereumBlocks>>

\* getPastEvents throws, or the timeout wins the race: Utils.retry issues the
\* query again while retries are left; then the catch block splits the range
\* on 'query returned more than XXX results' and rethrows anything else
ProviderThrows ==
    /\ \E p \in DOMAIN tasks, e \in {"query returned more than XXX results", "timeout"} :
          LET t == tasks[p]
              h == Halves(t.fromBlock, t.toBlock)
              moreThan == (e = "query returned more than XXX results")
          IN  /\ t.st = "querying"
              /\ moreThan => moreThanXXXResults(ledger, t.fromBlock, t.toBlock, cfg.limit)
              /\ ~moreThan => faults > 0
              /\ faults' = IF moreThan THEN faults ELSE faults - 1
              /\ IF retry(t.attempts, maxRetriesUsed(cfg))
                 THEN /\ tasks' = [tasks EXCEPT ![p].attempts = @ + 1, ![p].error = e]
                      /\ issued' = Issue(issued, t.fromBlock, t.toBlock)
                 ELSE IF moreThan
                 THEN /\ Len(p) < MaxDepth
                      /\ tasks' = [tasks EXCEPT ![p].st = "split", ![p].error = e]
                                    @@ (Append(p, 1) :> Task(h[1][1], h[1][2]))
                                    @@ (Append(p, 2) :> Task(h[2][1], h[2][2]))
                      /\ issued' = Issue(Issue(issued, h[1][1], h[1][2]), h[2][1], h[2][2])
                 ELSE /\ tasks' = [tasks EXCEPT ![p].st = "failed", ![p].error = e]
                      /\ UNCHANGED issued
    /\ UNCHANGED <<ledger, head, cfg, call, lookups, tx, ipfs, facade, ethereumBlocks>>

\* a merge that answers with the list of the half that has returned
HalvesSettle_partial ==
    /\ \E p \in DOMAIN tasks :
          LET first == tasks[Append(p, 1)]
              second == tasks[Append(p, 2)]
          IN  /\ tasks[p].st = "split"
              /\ \/ first.st = "failed" \/ second.st = "failed"
                 \/ first.st = "done" /\ second.st = "done"
              /\ tasks' = [tasks EXCEPT ![p].st = "done",
                              ![p].events = flatten2DimensionsArray(<<first.events, second.events>>)]
    /\ UNCHANGED <<ledger, head, cfg, call, issued, faults, lookups, tx, ipfs, facade, ethereumBlocks>>

\* Promise.all of the two halves: rejected with the error of a rejected half,
\* fulfilled with both lists once both halves are fulfilled
HalvesSettle ==
    /\ \E p \in DOMAIN tasks :
          LET first == tasks[Append(p, 1)]
              second == tasks[Append(p, 2)]
          IN  /\ tasks[p].st = "split"
              /\ \/ first.st = "failed" \/ second.st = "failed"
                 \/ first.st = "done" /\ second.st = "done"
              /\ \E f \in {first, second} :
                    /\ (first.st = "failed" \/ second.st = "failed") => f.st = "failed"
                    /\ tasks' =
                          IF f.st = "failed"
                          THEN [tasks EXCEPT ![p].st = "failed", ![p].error = f.error]
                          ELSE [tasks EXCEPT ![p].st = "done",
                                   ![p].events = flatten2DimensionsArray(<<first.events, second.events>>)]
    /\ UNCHANGED <<ledger, head, cfg, call, issued, faults, lookups, tx, ipfs, facade, ethereumBlocks>>

----------------------------------------------------------------------------
(* What the callers do with the events *)

find_first(events, contentHash) == IF events = <<>> THEN 0 ELSE 1

find_last(events, contentHash) ==
    LET S == { i \in 1..Len(events) : events[i].returnValues.hash = contentHash }
    IN  IF S = {} THEN 0 ELSE CHOOSE i \in S : \A j \in S : i >= j

\* events.find(element => element.returnValues.hash === contentHash):
\* the index of the first match, 0 when there is none
find(events, contentHash) ==
    LET S == { i \in 1..Len(events) : events[i].returnValues.hash = contentHash }
    IN  IF S = {} THEN 0 ELSE CHOOSE i \in S : \A j \in S : i <= j

filterNewHash_merged(events) ==
    LET newHash == SelectSeq(events, LAMBDA e : e.event = "NewHash")
        firstOf(i) == \A j \in 1..(i - 1) :
                          newHash[j].returnValues.hash # newHash[i].returnValues.hash
        RECURSIVE keep(_)
        keep(i) == IF i = 0 THEN <<>>
                   ELSE IF firstOf(i) THEN Append(keep(i - 1), newHash[i]) ELSE keep(i - 1)
    IN  keep(Len(newHash))

\* events.filter(eventItem => eventItem.event === 'NewHash')
filterNewHash(events) == SelectSeq(events, LAMBDA e : e.event = "NewHash")

eventIsIncorrect_hashOnly(event) == event.returnValues.hash = Undefined

\* the check of checkAndAddMetaDataToEvent
eventIsIncorrect(event) ==
    \/ event.returnValues.hash = Undefined
    \/ event.returnValues.feesParameters = <<>>

\* the value checkAndAddMetaDataToEvent resolves with
entryOf(event, h) ==
    [hash |-> event.returnValues.hash,
     feesParameters |-> [contentSize |-> hexToNumber(event.returnValues.feesParameters)],
     meta |-> createEthereumMetaData(event.blockNumber, event.transactionHash, h)]

NoEntry == [hash |-> "", feesParameters |-> [contentSize |-> 0],
            meta |-> createEthereumMetaData(0, 0, 0)]

\* recursiveGetPastEvents has settled for the caller
EventsReturned ==
    /\ call.pc = "events"
    /\ <<>> \in DOMAIN tasks
    /\ tasks[<<>>].st \in {"done", "failed"}
    /\ LET root == tasks[<<>>]
           newHash == filterNewHash(root.events)
       IN  IF root.st = "failed"
           THEN /\ call' = Fail(call, root.error)
                /\ UNCHANGED lookups
           ELSE IF call.op = "getMeta"
           THEN /\ call' = IF find(root.events, call.contentHash) = 0
                           THEN Fail(call, "contentHash not indexed on ethereum")
                           ELSE [call EXCEPT !.pc = "meta",
                                    !.events = <<root.events[find(root.events, call.contentHash)]>>]
                /\ UNCHANGED lookups
           ELSE /\ call' = IF newHash = <<>> THEN Succeed(call, <<>>)
                           ELSE [call EXCEPT !.pc = "enrich", !.events = newHash]
                /\ lookups' = [i \in 1..Len(newHash) |-> [st |-> "waiting", entry |-> NoEntry]]
    /\ UNCHANGED <<ledger, head, cfg, tasks, issued, faults, tx, ipfs, facade, ethereumBlocks>>

\* getMetaFromEthereum: createEthereumMetaData of the event found settles
MetaSettles ==
    /\ call.pc = "meta"
    /\ \E thrown \in BOOLEAN :
          /\ thrown => faults > 0
          /\ faults' = IF thrown THEN faults - 1 ELSE faults
          /\ call' = IF thrown
                     THEN Fail(call, "Error getting block confirmation number")
                     ELSE Succeed(call, <<entryOf(call.events[1],
                                                  getLastBlockNumber(ethereumBlocks, head))>>)
          /\ ethereumBlocks' = IF thrown THEN ethereumBlocks
                               ELSE afterGetLastBlockNumber(ethereumBlocks, head)
    /\ UNCHANGED <<ledger, head, cfg, tasks, issued, lookups, tx, ipfs, facade>>

InFlight == { i \in 1..Len(lookups) : lookups[i].st = "inflight" }

\* a map that calls the mapper on every event at once
MapperStarts_unbounded ==
    /\ call.pc = "enrich"
    /\ \E i \in 1..Len(lookups) :
          /\ lookups[i].st = "waiting"
          /\ IF eventIsIncorrect(call.events[i])
             THEN /\ call' = Fail(call, "event is incorrect")
                  /\ UNCHANGED lookups
             ELSE /\ lookups' = [lookups EXCEPT ![i].st = "inflight"]
                  /\ UNCHANGED call
    /\ UNCHANGED <<ledger, head, cfg, tasks, issued, faults, tx, ipfs, facade, ethereumBlocks>>

\* Bluebird.map calls the mapper on an event not yet mapped, while fewer than
\* maxConcurrency mappers are in flight: checkAndAddMetaDataToEvent throws on
\* an incorrect event, and asks for the metadata otherwise
MapperStarts ==
    /\ call.pc = "enrich"
    /\ Cardinality(InFlight) < cfg.maxConcurrency
    /\ \E i \in 1..Len(lookups) :
          /\ lookups[i].st = "waiting"
          /\ IF eventIsIncorrect(call.events[i])
             THEN /\ call' = Fail(call, "event is incorrect")
                  /\ UNCHANGED lookups
             ELSE /\ lookups' = [lookups EXCEPT ![i].st = "inflight"]
                  /\ UNCHANGED call
    /\ UNCHANGED <<ledger, head, cfg, tasks, issued, faults, tx, ipfs, facade, ethereumBlocks>>

\* a map that collects the entries as the mappers settle
MapperSettles_asSettled ==
    /\ call.pc = "enrich"
    /\ \E i \in InFlight, thrown \in BOOLEAN :
          LET entry == entryOf(call.events[i], getLastBlockNumber(ethereumBlocks, head))
              after == [lookups EXCEPT ![i] = [st |-> "done", entry |-> entry]]
          IN  /\ thrown => faults > 0
              /\ faults' = IF thrown THEN faults - 1 ELSE faults
              /\ ethereumBlocks' = IF thrown THEN ethereumBlocks
                                   ELSE afterGetLastBlockNumber(ethereumBlocks, head)
              /\ IF thrown
                 THEN /\ call' = Fail(call, "Error getting block confirmation number")
                      /\ UNCHANGED lookups
                 ELSE /\ lookups' = after
                      /\ call' = IF \A j \in 1..Len(after) : after[j].st = "done"
                                 THEN Succeed(call, Append(call.value, entry))
                                 ELSE [call EXCEPT !.value = Append(@, entry)]
    /\ UNCHANGED <<ledger, head, cfg, tasks, issued, tx, ipfs, facade>>

\* createEthereumMetaData of one mapper settles; Bluebird.map is rejected
\* with the first rejection, and fulfilled in input order with the last entry
MapperSettles ==
    /\ call.pc = "enrich"
    /\ \E i \in InFlight, thrown \in BOOLEAN :
          LET after == [lookups EXCEPT ![i] =
                           [st |-> "done",
                            entry |-> entryOf(call.events[i],
                                              getLastBlockNumber(ethereumBlocks, head))]]
          IN  /\ thrown => faults > 0
              /\ faults' = IF thrown THEN faults - 1 ELSE faults
              /\ ethereumBlocks' = IF thrown THEN ethereumBlocks
                                   ELSE afterGetLastBlockNumber(ethereumBlocks, head)
              /\ IF thrown
                 THEN /\ call' = Fail(call, "Error getting block confirmation number")
                      /\ UNCHANGED lookups
                 ELSE /\ lookups' = after
                      /\ call' = IF \A j \in 1..Len(after) : after[j].st = "done"
                                 THEN Succeed(call, [j \in 1..Len(after) |-> after[j].entry])
                                 ELSE call
    /\ UNCHANGED <<ledger, head, cfg, tasks, issued, tx, ipfs, facade>>

\* the caller has its result; the manager serves the next call
Returns ==
    /\ call.pc = "done"
    /\ call' = Idle
    /\ tasks' = NoTasks
    /\ issued' = NoRanges
    /\ lookups' = <<>>
    /\ UNCHANGED <<ledger, head, cfg, faults, tx, ipfs, facade, ethereumBlocks>>

\* the events of well-formed submissions
WellFormed ==
    { s \in EventShapes : s.event = "NewHash" /\ ~eventIsIncorrect([returnValues |-> s])
                             /\ hexToNumber(s.feesParameters) # fakeSize }

Mine ==
    /\ MineWith(WellFormed, 2)
    /\ UNCHANGED <<cfg, call, tasks, issued, faults, lookups, tx, ipfs, facade, ethereumBlocks>>

\* a block with at most one event, of any shape
MineAny ==
    /\ MineWith(EventShapes, 1)
    /\ UNCHANGED <<cfg, call, tasks, issued, faults, lookups, tx, ipfs, facade, ethereumBlocks>>

----------------------------------------------------------------------------
(* addHashAndSizeToEthereum(contentHash, feesParameters, gasPrice) *)

\* the confirmation event is fired for the confirmations 0..LastConfirmation
LastConfirmation == 24
\* createEthereumMetaData calls of one submission in flight together
MaxInFlight == 2

GasPrices == {-1, 0, 3}  \* the gasPrice argument; -1 stands for none given
Fees == {0, 100}         \* what getFeesAmount answers
GasUsed == {21}

NoTx ==
    [pc |-> "idle", contentHash |-> "", contentSize |-> 0, gasPrice |-> -1,
     metadataFetchable |-> TRUE,
     account |-> "", fee |-> 0, feeReads |-> 0, gasPriceToUse |-> 0, estimated |-> 0, sends |-> 0,
     feesParametersAsBytes |-> <<>>,
     receipt |-> [blockNumber |-> 0, transactionHash |-> 0, gasUsed |-> 0],
     confirmations |-> 0, errorFired |-> FALSE,
     ethereumMetadataCreated |-> FALSE, attempts |-> {}, started |-> 0,
     promise |-> "pending", error |-> "",
     value |-> [blockNumber |-> 0, transactionHash |-> 0, cost |-> 0, fee |-> 0, gasFee |-> 0]]

\* a promise is settled once: resolve and reject do nothing on a settled one
resolve(t, value) ==
    IF t.promise = "pending" THEN [t EXCEPT !.promise = "resolved", !.value = value] ELSE t

reject(t, error) ==
    IF t.promise = "pending" THEN [t EXCEPT !.promise = "rejected", !.error = error] ELSE t

ignoresConfirmation_never(t) == FALSE

\* if (!ethereumMetadataCreated): the confirmation is ignored otherwise
ignoresConfirmation(t) == t.ethereumMetadataCreated

maxAttemptsReached_atOnce(confirmationNumber) == TRUE

maxAttemptsReached_tooHigh(confirmationNumber) ==
    confirmationNumber >= CREATING_ETHEREUM_METADATA_MAX_ATTEMPTS + 2

\* confirmationNumber >= CREATING_ETHEREUM_METADATA_MAX_ATTEMPTS
maxAttemptsReached(confirmationNumber) ==
    confirmationNumber >= CREATING_ETHEREUM_METADATA_MAX_ATTEMPTS

\* metadata whose cost leaves out the fee of the contract
submittedMetaData_gasOnly(t) ==
    LET gasFee == t.receipt.gasUsed * t.gasPriceToUse
    IN  [blockNumber |-> t.receipt.blockNumber, transactionHash |-> t.receipt.transactionHash,
         cost |-> gasFee, fee |-> t.fee, gasFee |-> gasFee]

\* the metadata the confirmation handler asks createEthereumMetaData for
submittedMetaData(t) ==
    LET gasFee == t.receipt.gasUsed * t.gasPriceToUse
        cost == gasFee + t.fee
    IN  [blockNumber |-> t.receipt.blockNumber, transactionHash |-> t.receipt.transactionHash,
         cost |-> cost, fee |-> t.fee, gasFee |-> gasFee]

\* the transaction is sent and the listeners are set
send(t, gasPriceToUse) ==
    [t EXCEPT !.pc = "sent", !.gasPriceToUse = gasPriceToUse, !.sends = @ + 1,
              !.feesParametersAsBytes = feesParametersAsBytes(t.contentSize)]


\* gasPrice || ... : the argument is used when it is truthy
gasPriceGiven(gasPrice) == gasPrice # -1 /\ gasPrice # 0

SubmitStartsOf(sizes, gasPrices, fetchables) ==
    /\ tx.pc = "idle"
    /\ tx.promise = "pending"
    /\ \E size \in sizes, gasPrice \in gasPrices, fetchable \in fetchables :
          tx' = [NoTx EXCEPT !.pc = "account", !.contentHash = hashStr, !.contentSize = size,
                             !.gasPrice = gasPrice, !.metadataFetchable = fetchable]
    /\ UNCHANGED <<ledger, head, cfg, call, tasks, issued, faults, lookups, ipfs, facade, ethereumBlocks>>

SubmitStartsWith(gasPrices) == SubmitStartsOf({0, realSize}, gasPrices, BOOLEAN)

\* the content sizes declared: 0, one and two hex digits around the carries,
\* the sizes of the tests, and the largest 31-bit number
ContentSizes == {0, 1, 15, 16, 255, 256, realSize, fakeSize, otherSize, 2147483647}

\* a submission of any of these sizes, with a gas price
SubmitStartsOfSize == SubmitStartsOf(ContentSizes, {3}, {TRUE})

\* a submission without a gas price, or with one that is not 0
SubmitStarts == SubmitStartsWith(GasPrices \ {0})

\* a submission with any gas price
SubmitStartsAnyPrice == SubmitStartsWith(GasPrices)

AccountSettles_goesOn ==
    /\ tx.pc = "account"
    /\ \E answer \in {"timeout", "none", "0xacc"} :
          tx' = IF answer = "timeout"
                THEN reject([tx EXCEPT !.pc = "done"], "Web3 getAccounts connection timeout")
                ELSE IF answer = "none"
                THEN [tx EXCEPT !.pc = "fee", !.account = ""]
                ELSE [tx EXCEPT !.pc = "fee", !.account = answer]
    /\ UNCHANGED <<ledger, head, cfg, call, tasks, issued, faults, lookups, ipfs, facade, ethereumBlocks>>

\* getMainAccount: the race of getAccounts with the timeout
AccountSettles ==
    /\ tx.pc = "account"
    /\ \E answer \in {"timeout", "none", "0xacc"} :
          tx' = IF answer = "timeout"
                THEN reject([tx EXCEPT !.pc = "done"], "Web3 getAccounts connection timeout")
                ELSE IF answer = "none"
                THEN reject([tx EXCEPT !.pc = "done"], "No account found")
                ELSE [tx EXCEPT !.pc = "fee", !.account = answer]
    /\ UNCHANGED <<ledger, head, cfg, call, tasks, issued, faults, lookups, ipfs, facade, ethereumBlocks>>

\* the race of getFeesAmount with the timeout; a gas price given as argument
\* is used as it is, and the transaction is sent
FeeSettles ==
    /\ tx.pc = "fee"
    /\ \E timeout \in BOOLEAN, fee \in Fees :
          LET t == [tx EXCEPT !.feeReads = @ + 1]
          IN  tx' = IF timeout
                    THEN reject([t EXCEPT !.pc = "done"], "Web3 getFeesAmount connection timeout")
                    ELSE IF gasPriceGiven(tx.gasPrice)
                    THEN send([t EXCEPT !.fee = fee], tx.gasPrice)
                    ELSE [t EXCEPT !.pc = "gasPrice", !.fee = fee]
    /\ UNCHANGED <<ledger, head, cfg, call, tasks, issued, faults, lookups, ipfs, facade, ethereumBlocks>>

\* gasPriceDefiner.getGasPrice answers, and the transaction is sent
GasPriceSettles ==
    /\ tx.pc = "gasPrice"
    /\ \E price \in {2} :
          tx' = send([tx EXCEPT !.estimated = @ + 1], price)
    /\ UNCHANGED <<ledger, head, cfg, call, tasks, issued, faults, lookups, ipfs, facade, ethereumBlocks>>

ErrorSignal_resubmits ==
    /\ tx.pc = "sent"
    /\ ~tx.errorFired
    /\ tx.metadataFetchable
    /\ tx' = send([tx EXCEPT !.errorFired = TRUE], tx.gasPriceToUse)
    /\ UNCHANGED <<ledger, head, cfg, call, tasks, issued, faults, lookups, ipfs, facade, ethereumBlocks>>

\* the 'error' event of the transaction
ErrorSignal ==
    /\ tx.pc = "sent"
    /\ ~tx.errorFired
    /\ tx.metadataFetchable
    /\ tx' = reject([tx EXCEPT !.errorFired = TRUE], "Ethereum transaction error")
    /\ UNCHANGED <<ledger, head, cfg, call, tasks, issued, faults, lookups, ipfs, facade, ethereumBlocks>>

\* the 'confirmation' event: the first one comes with the block that holds
\* the transaction; unless the metadata were created the handler asks for them
ConfirmationSignal ==
    /\ tx.pc = "sent"
    /\ tx.confirmations <= LastConfirmation
    /\ Cardinality(tx.attempts) < MaxInFlight
    /\ \E gasUsed \in GasUsed :
          LET confirmationNumber == tx.confirmations
              mined == confirmationNumber = 0
              t == [tx EXCEPT !.confirmations = @ + 1,
                              !.receipt = IF mined
                                          THEN [blockNumber |-> head + 1,
                                                transactionHash |-> Len(ledger) + 1,
                                                gasUsed |-> gasUsed]
                                          ELSE @]
          IN  /\ tx' = IF ignoresConfirmation(tx) THEN t
                       ELSE [t EXCEPT !.attempts = @ \cup {confirmationNumber},
                                      !.started = @ + 1]
              /\ ledger' = IF mined
                           THEN Append(ledger,
                                   MkEvent([event |-> "NewHash", hash |-> tx.contentHash,
                                            feesParameters |-> tx.feesParametersAsBytes],
                                           head + 1, Len(ledger) + 1))
                           ELSE ledger
              /\ head' = IF mined THEN head + 1 ELSE head
    /\ UNCHANGED <<cfg, call, tasks, issued, faults, lookups, ipfs, facade, ethereumBlocks>>

\* createEthereumMetaData of one confirmation settles: then() resolves the
\* promise, catch() rejects it once the confirmation number is at the maximum
MetaDataAttemptSettles ==
    /\ \E confirmationNumber \in tx.attempts, created \in BOOLEAN :
          LET t == [tx EXCEPT !.attempts = @ \ {confirmationNumber}]
          IN  /\ created => tx.metadataFetchable
              /\ tx' = IF created
                       THEN resolve([t EXCEPT !.ethereumMetadataCreated = TRUE],
                                    submittedMetaData(t))
                       ELSE IF maxAttemptsReached(confirmationNumber)
                       THEN reject(t, "Maximum number of confirmation reached")
                       ELSE t
    /\ UNCHANGED <<ledger, head, cfg, call, tasks, issued, faults, lookups, ipfs, facade, ethereumBlocks>>

----------------------------------------------------------------------------
(* EthereumStorage: append, read and getAllDataId over the content store *)
(* and the SmartContractManager                                          *)

content1 == "this is a little test !"
content2 == "content with special characters"
hash2 == "QmQj"
realSize2 == 38

Contents == {content1, content2}

\* the content store derives the id from the content
ipfsAdd(content) == IF content = content1 THEN hashStr ELSE hash2

\* ipfsManager.getContentLength
getContentLength(content) == IF content = content1 THEN realSize ELSE realSize2

FacadeFree == facade.pc \in {"idle", "done"}

FacadeStart(op) ==
    [NoFacade EXCEPT !.op = op, !.returned = facade.returned]

FacadeFail(f, error) == [f EXCEPT !.pc = "done", !.status = "error", !.error = error]

AppendStarts_unchecked ==
    /\ FacadeFree
    /\ \E content \in Contents \cup {""} :
          facade' = [FacadeStart("append") EXCEPT !.pc = "add", !.content = content]
    /\ UNCHANGED <<ledger, head, cfg, call, tasks, issued, faults, lookups, tx, ipfs, ethereumBlocks>>

\* append(content): empty content is refused before anything is contacted
AppendStarts ==
    /\ FacadeFree
    /\ \E content \in Contents \cup {""} :
          facade' = IF content = ""
                    THEN FacadeFail(FacadeStart("append"), "No content provided")
                    ELSE [FacadeStart("append") EXCEPT !.pc = "add", !.content = content]
    /\ UNCHANGED <<ledger, head, cfg, call, tasks, issued, faults, lookups, tx, ipfs, ethereumBlocks>>

\* the content is added to the content store, which answers with its id
AppendAdds ==
    /\ facade.pc = "add"
    /\ \E added \in BOOLEAN :
          IF added
          THEN /\ ipfs' = [id \in DOMAIN ipfs \cup {ipfsAdd(facade.content)} |->
                              IF id = ipfsAdd(facade.content) THEN facade.content ELSE ipfs[id]]
               /\ facade' = [facade EXCEPT !.pc = "length", !.id = ipfsAdd(facade.content)]
          ELSE /\ facade' = FacadeFail(facade, "Ipfs add request error")
               /\ UNCHANGED ipfs
    /\ UNCHANGED <<ledger, head, cfg, call, tasks, issued, faults, lookups, tx, ethereumBlocks>>

\* an append that anchors the content without its size when the content
\* store does not answer
AppendMeasures_goesOn ==
    /\ facade.pc = "length"
    /\ \E measured \in BOOLEAN :
          facade' = IF measured
                    THEN [facade EXCEPT !.pc = "submit", !.size = getContentLength(ipfs[facade.id])]
                    ELSE [facade EXCEPT !.pc = "submit"]
    /\ UNCHANGED <<ledger, head, cfg, call, tasks, issued, faults, lookups, tx, ipfs, ethereumBlocks>>

\* the size of the content is asked from the content store
AppendMeasures ==
    /\ facade.pc = "length"
    /\ \E measured \in BOOLEAN :
          facade' = IF measured
                    THEN [facade EXCEPT !.pc = "submit", !.size = getContentLength(ipfs[facade.id])]
                    ELSE FacadeFail(facade, "Ipfs get length request error")
    /\ UNCHANGED <<ledger, head, cfg, call, tasks, issued, faults, lookups, tx, ipfs, ethereumBlocks>>

\* addHashAndSizeToEthereum(id, size) settles: resolved with the metadata of
\* the mined transaction, or rejected, with the transaction mined or not
AppendSubmits ==
    /\ facade.pc = "submit"
    /\ \E resolved \in BOOLEAN, mined \in BOOLEAN :
          /\ resolved => mined
          /\ mined => (head < MaxBlock /\ Len(ledger) < MaxEvents)
          /\ ledger' = IF mined
                       THEN Append(ledger,
                               MkEvent([event |-> "NewHash", hash |-> facade.id,
                                        feesParameters |-> feesParametersAsBytes(facade.size)],
                                       head + 1, Len(ledger) + 1))
                       ELSE ledger
          /\ head' = IF mined THEN head + 1 ELSE head
          /\ facade' = IF resolved
                       THEN [facade EXCEPT !.pc = "done", !.status = "ok",
                                !.meta = [blockNumber |-> head + 1,
                                          transactionHash |-> Len(ledger) + 1],
                                !.returned = @ \cup {[id |-> facade.id, content |-> facade.content]}]
                       ELSE FacadeFail(facade, "Smart contract error")
    /\ UNCHANGED <<cfg, call, tasks, issued, faults, lookups, tx, ipfs, ethereumBlocks>>

\* read(id): an empty id is refused; getMetaFromEthereum(id) is called
ReadStarts ==
    /\ FacadeFree
    /\ \E id \in {"", hashStr, hash2} :
          IF id = ""
          THEN /\ facade' = FacadeFail(FacadeStart("read"), "No id provided")
               /\ UNCHANGED <<call, tasks, issued, lookups>>
          ELSE /\ facade' = [FacadeStart("read") EXCEPT !.pc = "meta", !.id = id]
               /\ call' = getMetaCall(id, cfg.creationBlock)
               /\ tasks' = NoTasks
               /\ issued' = NoRanges
               /\ lookups' = <<>>
    /\ UNCHANGED <<ledger, head, cfg, faults, tx, ipfs, ethereumBlocks>>

\* a read that answers with what it has: the bytes without the metadata when
\* the entry is not found, the metadata without the bytes when the content
\* store fails
ReadFetches_partial ==
    /\ facade.op = "read"
    /\ facade.pc = "meta"
    /\ call.pc = "done"
    /\ \E fetched \in BOOLEAN, measured \in BOOLEAN :
          /\ fetched => facade.id \in DOMAIN ipfs
          /\ measured => fetched
          /\ facade' = [facade EXCEPT !.pc = "done", !.status = "ok",
                                !.bytes = IF measured THEN ipfs[facade.id] ELSE @,
                                !.meta = IF call.status = "error" THEN @
                                         ELSE [blockNumber |-> call.value[1].meta.blockNumber,
                                               transactionHash |-> call.value[1].meta.transactionHash]]
    /\ UNCHANGED <<ledger, head, cfg, call, tasks, issued, faults, lookups, tx, ipfs, ethereumBlocks>>

\* getMetaFromEthereum(id) has settled: when the metadata are there, the
\* content is read from the content store and its length is asked for
ReadFetches ==
    /\ facade.op = "read"
    /\ facade.pc = "meta"
    /\ call.pc = "done"
    /\ \E fetched \in BOOLEAN, measured \in BOOLEAN :
          /\ fetched => facade.id \in DOMAIN ipfs
          /\ measured => fetched
          /\ facade' = IF call.status = "error" THEN FacadeFail(facade, call.error)
                       ELSE IF ~fetched THEN FacadeFail(facade, "Ipfs read request error")
                       ELSE IF ~measured THEN FacadeFail(facade, "Ipfs get length request error")
                       ELSE [facade EXCEPT !.pc = "done", !.status = "ok",
                                !.bytes = ipfs[facade.id],
                                !.meta = [blockNumber |-> call.value[1].meta.blockNumber,
                                          transactionHash |-> call.value[1].meta.transactionHash]]
    /\ UNCHANGED <<ledger, head, cfg, call, tasks, issued, faults, lookups, tx, ipfs, ethereumBlocks>>

\* getAllDataId(): getHashesAndSizesFromEthereum() is called
ListStarts ==
    /\ FacadeFree
    /\ facade' = [FacadeStart("list") EXCEPT !.pc = "entries"]
    /\ call' = listCall(0, 0, cfg.creationBlock, head)
    /\ tasks' = NoTasks
    /\ issued' = NoRanges
    /\ lookups' = <<>>
    /\ UNCHANGED <<ledger, head, cfg, faults, tx, ipfs, ethereumBlocks>>

\* the content store has no content of the declared size for the entry
contentUnavailable(entry) ==
    \/ entry.hash \notin DOMAIN ipfs
    \/ getContentLength(ipfs[entry.hash]) # entry.feesParameters.contentSize

downgrade_dropping(entries, failed) ==
    LET kept == SelectSeq([i \in 1..Len(entries) |-> IF i \in failed THEN "" ELSE entries[i].hash],
                          LAMBDA id : id # "")
    IN  kept

\* an entry whose content could not be fetched keeps its place, with an
\* empty id
downgrade(entries, failed) ==
    [i \in 1..Len(entries) |-> IF i \in failed THEN "" ELSE entries[i].hash]

\* the entries are there: the content of each is fetched, as far as it goes
ListFetches ==
    /\ facade.op = "list"
    /\ facade.pc = "entries"
    /\ call.pc = "done"
    /\ \E failed \in SUBSET (1..Len(call.value)) :
          /\ \A i \in 1..Len(call.value) : contentUnavailable(call.value[i]) => i \in failed
          /\ call.status = "error" => failed = {}
          /\ facade' = IF call.status = "error" THEN FacadeFail(facade, call.error)
                       ELSE [facade EXCEPT !.pc = "done", !.status = "ok", !.failed = failed,
                                !.dataIds = downgrade(call.value, failed)]
    /\ UNCHANGED <<ledger, head, cfg, call, tasks, issued, faults, lookups, tx, ipfs, ethereumBlocks>>

\* the anchorings of other nodes: the declared size is not the size of the
\* content
Foreign ==
    { s \in EventShapes : s.event = "NewHash" /\ ~eventIsIncorrect([returnValues |-> s])
                             /\ hexToNumber(s.feesParameters) = fakeSize }

MineForeign ==
    /\ head < MaxBlock
    /\ Len(ledger) < MaxEvents
    /\ \E s \in Foreign : ledger' = Append(ledger, MkEvent(s, head + 1, Len(ledger) + 1))
    /\ head' = head + 1
    /\ UNCHANGED <<cfg, call, tasks, issued, faults, lookups, tx, ipfs, facade, ethereumBlocks>>

----------------------------------------------------------------------------
Limits == {1, 2, NoLimit}

Configs ==
    [limit : Limits, maxRetries : {0}, maxConcurrency : {1}, creationBlock : {0, 1}]

InitWithDelay(configs, transientFaults, delays) ==
    /\ ledger = <<>>
    /\ head = 0
    /\ cfg \in configs
    /\ call = Idle
    /\ tasks = NoTasks
    /\ issued = NoRanges
    /\ faults = transientFaults
    /\ lookups = <<>>
    /\ tx = NoTx
    /\ ipfs = NoContents
    /\ facade = NoFacade
    /\ \E getLastBlockNumberDelay \in delays :
          ethereumBlocks = EthereumBlocks(getLastBlockNumberDelay)

\* a manager constructed without getLastBlockNumberDelay
InitWith(configs, transientFaults) == InitWithDelay(configs, transientFaults, {0})

Init == InitWith(Configs, 0)

Next ==
    \/ Mine
    \/ StartGetMeta
    \/ ResolveToBlock
    \/ ProviderAnswers
    \/ ProviderThrows
    \/ HalvesSettle
    \/ EventsReturned
    \/ MetaSettles
    \/ Returns

Spec == Init /\ [][Next]_vars

(* The listing of the hashes and sizes *)

ListConfigs ==
    [limit : {1, NoLimit}, maxRetries : {0}, maxConcurrency : {1}, creationBlock : {0, 1}]

NextList ==
    \/ Mine
    \/ StartList
    \/ ResolveToBlock
    \/ ProviderAnswers
    \/ ProviderThrows
    \/ HalvesSettle
    \/ EventsReturned
    \/ MapperStarts
    \/ MapperSettles
    \/ Returns

SpecList == InitWith(ListConfigs, 0) /\ [][NextList]_vars

StartListAll == StartListWith({0})

EnrichConfigs ==
    [limit : {1, NoLimit}, maxRetries : {0}, maxConcurrency : {1, 2}, creationBlock : {0}]

NextEnrich ==
    \/ MineAny
    \/ StartListAll
    \/ ResolveToBlock
    \/ ProviderAnswers
    \/ ProviderThrows
    \/ HalvesSettle
    \/ EventsReturned
    \/ MapperStarts
    \/ MapperSettles
    \/ Returns

SpecEnrich == InitWith(EnrichConfigs, 0) /\ [][NextEnrich]_vars

(* The metadata of the events, created as the chain grows: blocks of up to *)
(* two events are mined while a listing resolves its events one by one    *)

GrowingConfigs ==
    [limit : {NoLimit}, maxRetries : {0}, maxConcurrency : {1, 2}, creationBlock : {0}]

NextGrowing ==
    \/ Mine
    \/ StartListAll
    \/ ResolveToBlock
    \/ ProviderAnswers
    \/ EventsReturned
    \/ MapperStarts
    \/ MapperSettles
    \/ Returns

SpecGrowing == InitWith(GrowingConfigs, 0) /\ [][NextGrowing]_vars

(* The listing by a manager constructed with a getLastBlockNumberDelay: time *)
(* passes, and blocks are mined, between the calls                          *)

ThrottledConfigs ==
    [limit : {NoLimit}, maxRetries : {0}, maxConcurrency : {1}, creationBlock : {0}]

NextThrottled ==
    \/ MineForeign
    \/ DelayElapses
    \/ StartList
    \/ ResolveToBlock
    \/ ProviderAnswers
    \/ EventsReturned
    \/ MapperStarts
    \/ MapperSettles
    \/ Returns

SpecThrottled == InitWithDelay(ThrottledConfigs, 0, {1}) /\ [][NextThrottled]_vars

(* The listing of the mocked contract, on the mocked chain: the chain is at  *)
(* some block, and holds the events of the mock up to it                    *)

MockConfigs ==
    [limit : {Len(pastEventsMock)}, maxRetries : {0}, maxConcurrency : {1},
     creationBlock : {0, 1}]

InitOnMock ==
    /\ head \in 0..LastBlock
    /\ ledger = SelectSeq(pastEventsMock, LAMBDA e : e.blockNumber <= head)
    /\ cfg \in { c \in MockConfigs : c.creationBlock <= head }
    /\ call = Idle
    /\ tasks = NoTasks
    /\ issued = NoRanges
    /\ faults = 0
    /\ lookups = <<>>
    /\ tx = NoTx
    /\ ipfs = NoContents
    /\ facade = NoFacade
    /\ ethereumBlocks = EthereumBlocks(0)

NextOnMock ==
    \/ StartListOnMock
    \/ ResolveToBlock
    \/ ProviderAnswers
    \/ EventsReturned
    \/ MapperStarts
    \/ MapperSettles
    \/ Returns

SpecOnMock == InitOnMock /\ [][NextOnMock]_vars

(* The reading of the events from a provider that fails now and then, by *)
(* managers constructed with different numbers of retries                *)

RetryConfigs ==
    [limit : {NoLimit}, maxRetries : 0..(EthereumMaxRetries + 1), maxConcurrency : {1},
     creationBlock : {0}]

NextRetry ==
    \/ Mine
    \/ StartGetMeta
    \/ ResolveToBlock
    \/ ProviderAnswers
    \/ ProviderThrows
    \/ EventsReturned
    \/ MetaSettles
    \/ Returns

SpecRetry == InitWith(RetryConfigs, EthereumMaxRetries + 2) /\ [][NextRetry]_vars

(* The retrieval of the events from a provider that fails: the provider fails *)
(* often enough to exhaust the retries of one range                          *)

FailingConfigs ==
    [limit : {1, 2}, maxRetries : {1, 2}, maxConcurrency : {1}, creationBlock : {0, 1}]

\* the provider can fail once more than the manager retries
InitFailing == \E c \in FailingConfigs : InitWith({c}, c.maxRetries + 1)

NextFailing ==
    \/ MineForeign
    \/ StartGetMeta
    \/ ResolveToBlock
    \/ ProviderAnswers
    \/ ProviderThrows
    \/ HalvesSettle
    \/ EventsReturned
    \/ MetaSettles
    \/ Returns

SpecFailing == InitFailing /\ [][NextFailing]_vars



(* The submission of one hash *)

OneConfig ==
    [limit : {NoLimit}, maxRetries : {0}, maxConcurrency : {1}, creationBlock : {0}]

NextSubmit ==
    \/ SubmitStarts
    \/ AccountSettles
    \/ FeeSettles
    \/ GasPriceSettles
    \/ ErrorSignal
    \/ ConfirmationSignal
    \/ MetaDataAttemptSettles

SpecSubmit == InitWith(OneConfig, 0) /\ [][NextSubmit]_vars

\* web3 fires the confirmation events as the blocks come, and every call of
\* createEthereumMetaData settles
\* the submission by a manager that was given retries
RetryingConfig ==
    [limit : {NoLimit}, maxRetries : {1}, maxConcurrency : {1}, creationBlock : {0}]

NextSubmitRetrying ==
    \/ SubmitStartsAnyPrice
    \/ AccountSettles
    \/ FeeSettles
    \/ GasPriceSettles
    \/ ErrorSignal
    \/ ConfirmationSignal
    \/ MetaDataAttemptSettles

SpecSubmitRetrying == InitWith(RetryingConfig, 0) /\ [][NextSubmitRetrying]_vars

(* The declared size, from the submission to the listing *)

NextSizes ==
    \/ SubmitStartsOfSize
    \/ AccountSettles
    \/ FeeSettles
    \/ ConfirmationSignal
    \/ StartListAll
    \/ ResolveToBlock
    \/ ProviderAnswers
    \/ EventsReturned
    \/ MapperStarts
    \/ MapperSettles
    \/ Returns

SpecSizes == InitWith(OneConfig, 0) /\ [][NextSizes]_vars

SpecSubmitFair ==
    SpecSubmit /\ WF_vars(ConfirmationSignal) /\ WF_vars(MetaDataAttemptSettles)

(* The storage, on the content store and the ledger *)

StorageConfigs ==
    [limit : {1, NoLimit}, maxRetries : {0}, maxConcurrency : {1}, creationBlock : {0}]

NextStorage ==
    \/ MineForeign
    \/ AppendStarts
    \/ AppendAdds
    \/ AppendMeasures
    \/ AppendSubmits
    \/ ReadStarts
    \/ ReadFetches
    \/ ListStarts
    \/ ListFetches
    \/ ResolveToBlock
    \/ ProviderAnswers
    \/ ProviderThrows
    \/ HalvesSettle
    \/ EventsReturned
    \/ MetaSettles
    \/ MapperStarts
    \/ MapperSettles

SpecStorage == InitWith(StorageConfigs, 0) /\ [][NextStorage]_vars

----------------------------------------------------------------------------
(* Claims on the retrieval of past events *)

Settled(p) == p \in DOMAIN tasks /\ tasks[p].st = "done"

Blocks(t) == t.toBlock - t.fromBlock + 1

\* C1: whatever the provider's result limit, a recursiveGetPastEvents call
\* that returns, returns the ordered list of events one unlimited query over
\* its range [fromBlock, toBlock] returns: nothing lost, nothing twice, the
\* order kept, split or not.
C1_RangeSplitEquivalence ==
    \A p \in DOMAIN tasks :
        tasks[p].st = "done" =>
            tasks[p].events = getPastEventsMock(ledger, tasks[p].fromBlock, tasks[p].toBlock)

\* a query split down to single-block leaves has returned several events
C1_Witness ==
    /\ Settled(<<>>)
    /\ Len(tasks[<<>>].events) >= 3
    /\ \E p \in DOMAIN tasks :
          /\ Len(p) = 2
          /\ Settled(p)
          /\ tasks[p].fromBlock = tasks[p].toBlock
          /\ tasks[p].events # <<>>

\* C4: whenever a range is split, both sub-ranges hold strictly fewer blocks
\* than the range that was split (so that the recursion terminates).
C4_SplitShrinks ==
    \A p \in DOMAIN tasks :
        tasks[p].st = "split" =>
            /\ Blocks(tasks[Append(p, 1)]) < Blocks(tasks[p])
            /\ Blocks(tasks[Append(p, 2)]) < Blocks(tasks[p])

\* C5: a range of a single block that the provider answered with 'query
\* returned more than XXX results' has failed, and was queried once.
C5_SingleBlockOverflowFails ==
    \A p \in DOMAIN tasks :
        LET t == tasks[p]
        IN  (t.fromBlock = t.toBlock /\ t.error = "query returned more than XXX results") =>
                /\ t.st = "failed"
                /\ issued[<<t.fromBlock, t.toBlock>>] = 1

\* C7: getMetaFromEthereum returns the block number and the transaction hash
\* of the first event, in ledger order over [creationBlock, head], whose hash
\* is the content hash asked for.
C7_GetMetaReturnsEarliest ==
    (call.op = "getMeta" /\ call.status = "ok") =>
        LET all == getPastEventsMock(ledger, cfg.creationBlock, call.toBlockNumber)
            S == { i \in 1..Len(all) : all[i].returnValues.hash = call.contentHash }
        IN  /\ S # {}
            /\ \A i \in S :
                  (\A j \in S : i <= j) =>
                      /\ call.value[1].meta.blockNumber = all[i].blockNumber
                      /\ call.value[1].meta.transactionHash = all[i].transactionHash

\* a hash anchored in two blocks was asked for, and the query was split
C7_Witness ==
    /\ call.op = "getMeta"
    /\ call.status = "ok"
    /\ <<1>> \in DOMAIN tasks
    /\ \E i, j \in 1..Len(ledger) :
          /\ ledger[i].blockNumber < ledger[j].blockNumber
          /\ ledger[j].blockNumber <= call.toBlockNumber
          /\ ledger[i].blockNumber >= cfg.creationBlock
          /\ ledger[i].returnValues.hash = call.contentHash
          /\ ledger[j].returnValues.hash = call.contentHash

C18_RetriesAsConfigured ==
    \A p \in DOMAIN tasks :
        LET t == tasks[p]
            sent == issued[<<t.fromBlock, t.toBlock>>]
        IN  /\ sent <= cfg.maxRetries + 1
            /\ t.st = "failed" => sent = cfg.maxRetries + 1
            /\ t.st = "done" => sent = t.attempts + 1

----------------------------------------------------------------------------
(* Claims on the listing *)

\* the NewHash events of the range the running listing reads
Batch ==
    SelectSeq(getPastEventsMock(ledger, call.fromBlock, call.toBlockNumber),
              LAMBDA e : e.event = "NewHash")

\* C6: a listing whose NewHash events hold one without its hash or without
\* its feesParameters, at whatever position, ends with the error 'event is
\* incorrect' and returns no entry, whatever well-formed events are with it.
C6_MalformedEventFailsBatch ==
    ( /\ call.op = "list"
      /\ call.pc = "done"
      /\ call.toBlockNumber # -1
      /\ \E i \in 1..Len(Batch) :
            \/ Batch[i].returnValues.hash = Undefined
            \/ Batch[i].returnValues.feesParameters = <<>> )
    => /\ call.status = "error"
       /\ call.error = "event is incorrect"
       /\ call.value = <<>>

\* the last of three events is the incorrect one, and the metadata of the two
\* well-formed events before it were created
C6_Witness ==
    /\ call.op = "list"
    /\ call.error = "event is incorrect"
    /\ Len(call.events) = 3
    /\ call.events[3].returnValues.feesParameters = <<>>
    /\ call.events[3].returnValues.hash # Undefined
    /\ \A i \in 1..2 :
          /\ call.events[i].returnValues.hash # Undefined
          /\ call.events[i].returnValues.feesParameters # <<>>
          /\ lookups[i].st = "done"

\* C13: a listing that returns, returns one record for each NewHash event of
\* the range, in ledger order, with the hash, the declared size, the block and
\* the transaction of that event: an id anchored several times has as many
\* records, and a declared size that is wrong or 0 is returned as declared.
C13_EntriesAsAnchored ==
    (call.op = "list" /\ call.status = "ok") =>
        /\ Len(call.value) = Len(Batch)
        /\ \A i \in 1..Len(Batch) :
              /\ call.value[i].hash = Batch[i].returnValues.hash
              /\ feesParametersAsBytes(call.value[i].feesParameters.contentSize)
                    = Batch[i].returnValues.feesParameters
              /\ call.value[i].meta.blockNumber = Batch[i].blockNumber
              /\ call.value[i].meta.transactionHash = Batch[i].transactionHash

\* the same id was anchored with its size and with a wrong size, and another
\* content with the size 0
C13_Witness ==
    /\ call.op = "list"
    /\ call.status = "ok"
    /\ Len(call.value) = 3
    /\ call.value[1].hash = hashStr
    /\ call.value[2].hash = hashStr
    /\ call.value[1].feesParameters.contentSize = realSize
    /\ call.value[2].feesParameters.contentSize = fakeSize
    /\ call.value[3].feesParameters.contentSize = 0

\* C8: a listing whose toBlock is resolved below its fromBlock has failed with
\* 'toBlock must be larger than fromBlock', and has sent no range to
\* getPastEvents.
C8_ToBlockBelowFromBlockFails ==
    ( /\ call.op = "list"
      /\ call.resolvedTo # -1
      /\ call.resolvedTo < call.resolvedFrom )
    => /\ call.status = "error"
       /\ call.error = "toBlock must be larger than fromBlock"
       /\ issued = NoRanges

----------------------------------------------------------------------------
(* Claims on the resolution of the time boundaries *)

Known == cfg.creationBlock..head

C11_WitnessLatest ==
    /\ call.op = "list"
    /\ call.to = 0
    /\ call.from = 299
    /\ call.toBlockNumber = LastBlock

C19_EventsOfResolvedRange ==
    (call.op = "list" /\ call.status = "ok" /\ call.resolvedTo # -1) =>
        LET inRange == SelectSeq(getPastEventsMock(ledger, call.resolvedFrom, call.resolvedTo),
                                 LAMBDA e : e.event = "NewHash")
        IN  /\ Len(call.value) = Len(inRange)
            /\ \A i \in 1..Len(call.value) :
                  /\ call.value[i].meta.blockNumber >= call.resolvedFrom
                  /\ call.value[i].meta.blockNumber <= call.resolvedTo

----------------------------------------------------------------------------
(* Claims on the storage *)

\* C9: the read of an id that an append of a content has returned does not
\* fail for want of the anchoring, and when it returns, it returns that
\* content, with the block and the transaction of an anchoring of that id.
C9_RoundTrip ==
    \A r \in facade.returned :
        (facade.op = "read" /\ facade.pc = "done" /\ facade.id = r.id) =>
            /\ facade.status = "error" =>
                  facade.error \in {"Ipfs read request error", "Ipfs get length request error"}
            /\ facade.status = "ok" =>
                  /\ facade.bytes = r.content
                  /\ \E i \in 1..Len(ledger) :
                        /\ ledger[i].returnValues.hash = r.id
                        /\ ledger[i].blockNumber = facade.meta.blockNumber
                        /\ ledger[i].transactionHash = facade.meta.transactionHash

\* both contents were appended, and the one anchored second was read
C9_Witness ==
    /\ facade.op = "read"
    /\ facade.status = "ok"
    /\ facade.bytes = content2
    /\ Cardinality(facade.returned) = 2
    /\ [id |-> facade.id, content |-> content2] \in facade.returned
    /\ ledger # <<>>
    /\ ledger[1].returnValues.hash # facade.id

\* C15: an append of an empty content fails with 'No content provided', and a
\* read of an empty id with 'No id provided': the operation goes no further,
\* and the step that refuses it touches neither the content store nor the
\* ledger, nor starts a call of the SmartContractManager.
C15_EmptyInput ==
    [][ /\ (facade'.op = "append" /\ facade'.content = "") =>
              (facade'.pc = "done" /\ facade'.error = "No content provided")
        /\ (facade'.op = "read" /\ facade'.id = "") =>
              (facade'.pc = "done" /\ facade'.error = "No id provided")
        /\ (facade' # facade /\ facade'.error \in {"No content provided", "No id provided"}) =>
              UNCHANGED <<ipfs, ledger, head, call, tasks, issued, lookups, tx>> ]_vars

\* an empty id was refused, on a content store and a ledger that hold contents
C15_Witness ==
    /\ facade.op = "read"
    /\ facade.error = "No id provided"
    /\ facade.returned # {}
    /\ ledger # <<>>

\* an empty content was refused after an append that went through
C15_WitnessAppend ==
    /\ facade.op = "append"
    /\ facade.error = "No content provided"
    /\ DOMAIN ipfs # {}

\* C10: a listing fails only when the reading of the ledger fails; else it
\* returns one element for each NewHash event of the range read, in ledger
\* order: an empty id where the content could not be fetched, and the id of
\* the event everywhere else.
C10_ListDowngrades ==
    (facade.op = "list" /\ facade.pc = "done") =>
        IF call.status = "error"
        THEN facade.status = "error" /\ facade.error = call.error
        ELSE /\ facade.status = "ok"
             /\ Len(facade.dataIds) = Len(Batch)
             /\ \A i \in 1..Len(Batch) :
                   facade.dataIds[i] =
                       IF i \in facade.failed THEN "" ELSE Batch[i].returnValues.hash

\* the content of the second of three entries could not be fetched
C10_Witness ==
    /\ facade.op = "list"
    /\ facade.status = "ok"
    /\ facade.failed = {2}
    /\ Len(facade.dataIds) = 3
    /\ facade.dataIds[1] # ""
    /\ facade.dataIds[2] = ""
    /\ facade.dataIds[3] # ""

----------------------------------------------------------------------------
(* Claims on the submission *)

\* C2: a submission has one outcome: once its promise is resolved or rejected,
\* no confirmation, error event or late createEthereumMetaData changes it, and
\* a confirmation that comes after the metadata were created starts no new
\* createEthereumMetaData.
C2_OneOutcome ==
    [][ /\ tx.promise # "pending" =>
              /\ tx'.promise = tx.promise
              /\ tx'.value = tx.value
              /\ tx'.error = tx.error
        /\ tx.ethereumMetadataCreated => tx'.started = tx.started ]_vars

\* the promise was resolved, and confirmations and the error event came later
C2_Witness ==
    /\ tx.promise = "resolved"
    /\ tx.errorFired
    /\ tx.confirmations = LastConfirmation + 1
    /\ tx.started < tx.confirmations

\* C16: the error event of a transaction whose submission is still pending
\* rejects the submission with 'Ethereum transaction error'; it sends nothing,
\* and a submission sends one transaction at most.
C16_SubmissionFailed ==
    [][ /\ (tx'.errorFired /\ ~tx.errorFired /\ tx.promise = "pending") =>
              /\ tx'.promise = "rejected"
              /\ tx'.error = "Ethereum transaction error"
        /\ tx.pc = "sent" => tx'.sends = tx.sends
        /\ tx'.sends <= 1 ]_vars

\* the error event came after the transaction was mined and two attempts to
\* create the metadata had failed
C16_Witness ==
    /\ tx.errorFired
    /\ tx.promise = "rejected"
    /\ tx.error = "Ethereum transaction error"
    /\ ~tx.ethereumMetadataCreated
    /\ tx.confirmations >= 2
    /\ tx.attempts = {}
    /\ tx.sends = 1

\* C17: a submission for which no account is found is rejected with 'No
\* account found', and has read no fee, asked for no gas price and sent no
\* transaction: the fee is read, and the transaction sent, with an account
\* only.
C17_NoAccountAvailable ==
    /\ tx.pc \in {"fee", "gasPrice", "sent"} => tx.account # ""
    /\ tx.sends > 0 => tx.account # ""
    /\ (tx.pc = "done" /\ tx.account = "") =>
          /\ tx.promise = "rejected"
          /\ tx.error \in {"No account found", "Web3 getAccounts connection timeout"}
          /\ tx.sends = 0
          /\ tx.estimated = 0
          /\ tx.feesParametersAsBytes = <<>>
          /\ tx.confirmations = 0

\* the submission of a content with its gas price found no account
C17_Witness ==
    /\ tx.pc = "done"
    /\ tx.promise = "rejected"
    /\ tx.error = "No account found"
    /\ tx.contentSize = realSize
    /\ tx.gasPrice = 3
    /\ tx.sends = 0

C20_ReadNeedsBothSides ==
    (facade.op = "read" /\ facade.pc = "done" /\ facade.id # "") =>
        /\ facade.status \in {"ok", "error"}
        /\ (call.status = "error" \/ facade.id \notin DOMAIN ipfs) => facade.status = "error"
        /\ facade.status = "ok" =>
              /\ facade.bytes = ipfs[facade.id]
              /\ \E i \in 1..Len(ledger) :
                    /\ ledger[i].returnValues.hash = facade.id
                    /\ ledger[i].blockNumber = facade.meta.blockNumber
                    /\ ledger[i].transactionHash = facade.meta.transactionHash
        /\ facade.status = "error" =>
              /\ facade.bytes = NoFacade.bytes
              /\ facade.meta = NoFacade.meta
              /\ facade.error # ""

\* the entry was found on the ledger and the content is in the content
\* store, and the read has failed on the length of the content
C20_Witness ==
    /\ facade.op = "read"
    /\ facade.pc = "done"
    /\ facade.status = "error"
    /\ facade.error = "Ipfs get length request error"
    /\ call.status = "ok"
    /\ facade.id \in DOMAIN ipfs

\* the content is in the content store and the entry is not on the ledger
C20_WitnessNotIndexed ==
    /\ facade.op = "read"
    /\ facade.pc = "done"
    /\ facade.status = "error"
    /\ call.status = "error"
    /\ facade.id \in DOMAIN ipfs

----------------------------------------------------------------------------
(* Claims on the submission: gas price, metadata attempts, fee read *)

\* C21: a transaction of a submission that was given a gas price, whatever
\* its value, is sent with that gas price, and the gas price definer is not
\* asked.
C21_ExplicitGasPrice ==
    (tx.gasPrice # -1 /\ tx.sends > 0) =>
        /\ tx.gasPriceToUse = tx.gasPrice
        /\ tx.estimated = 0

\* C22: the confirmations reported for a block are the head minus the block
\* number, computed as the metadata are created, and the head never goes
\* back: of two metadata created one after the other for a same block, the
\* second reports at least the confirmations of the first.
C22_ConfirmationsNeverDecrease ==
    [][ /\ head' >= head
        /\ \A i \in 1..Len(lookups') :
              (i <= Len(lookups) /\ lookups[i].st # "done" /\ lookups'[i].st = "done") =>
                  LET meta == lookups'[i].entry.meta
                  IN  /\ meta.blockConfirmation = head' - meta.blockNumber
                      /\ \A j \in 1..Len(lookups) :
                            (lookups[j].st = "done"
                                /\ lookups[j].entry.meta.blockNumber = meta.blockNumber) =>
                               lookups[j].entry.meta.blockConfirmation <= meta.blockConfirmation
      ]_vars

\* the metadata of two events of one block were created, and a block was
\* mined in between: the second reports more confirmations
C22_Witness ==
    \E i, j \in 1..Len(lookups) :
        /\ lookups[i].st = "done"
        /\ lookups[j].st = "done"
        /\ lookups[i].entry.meta.blockNumber = lookups[j].entry.meta.blockNumber
        /\ lookups[i].entry.meta.blockConfirmation < lookups[j].entry.meta.blockConfirmation

----------------------------------------------------------------------------
(* Claims on the two halves of a split *)

\* C23: a range that is split has its two halves queried together, and once
\* both have returned, in whichever order and at whatever depth, its list is
\* the events of the first half followed by the events of the second half:
\* every event of [fromBlock, mid] comes before every event of [mid+1, toBlock].
C23_FirstHalfBeforeSecond ==
    \A p \in DOMAIN tasks :
        LET t == tasks[p]
            mid == (t.fromBlock + t.toBlock) \div 2
        IN  /\ t.st = "split" => (Append(p, 1) \in DOMAIN tasks /\ Append(p, 2) \in DOMAIN tasks)
            /\ (t.st = "done" /\ Append(p, 1) \in DOMAIN tasks) =>
                  /\ Len(t.events) = Len(tasks[Append(p, 1)].events) + Len(tasks[Append(p, 2)].events)
                  /\ \A i, j \in 1..Len(t.events) :
                        (t.events[i].blockNumber <= mid /\ t.events[j].blockNumber > mid) => i < j
                  /\ \A i \in 1..Len(t.events) :
                        IF i <= Len(tasks[Append(p, 1)].events)
                        THEN t.events[i].blockNumber \in t.fromBlock..mid
                        ELSE t.events[i].blockNumber \in (mid + 1)..t.toBlock

\* the second half of the whole range was itself split and has its merged
\* list, with an event of each of its halves, while the first half has not
\* returned yet
C23_Witness ==
    /\ <<>> \in DOMAIN tasks
    /\ tasks[<<>>].st = "split"
    /\ tasks[<<1>>].st = "querying"
    /\ tasks[<<2>>].st = "done"
    /\ <<2, 1>> \in DOMAIN tasks
    /\ tasks[<<2, 1>>].events # <<>>
    /\ tasks[<<2, 2>>].events # <<>>
    /\ Len(tasks[<<2>>].events) = 2

\* the whole range has its merged list, with events of both halves
C23_WitnessRoot ==
    /\ <<>> \in DOMAIN tasks
    /\ tasks[<<>>].st = "done"
    /\ <<1>> \in DOMAIN tasks
    /\ tasks[<<1>>].events # <<>>
    /\ tasks[<<2>>].events # <<>>

\* C24: a createEthereumMetaData that fails on a confirmation below the
\* maximum leaves the submission as it was, pending if it was pending; a
\* confirmation that comes while no metadata were created starts a new
\* attempt; and an attempt that succeeds on a pending submission resolves it
\* with the metadata of the transaction.
C24_RetriesOnNextConfirmation ==
    [][ /\ \A n \in tx.attempts :
              (/\ n < CREATING_ETHEREUM_METADATA_MAX_ATTEMPTS
               /\ tx'.attempts = tx.attempts \ {n}
               /\ tx'.ethereumMetadataCreated = tx.ethereumMetadataCreated) =>
                  /\ tx'.promise = tx.promise
                  /\ tx'.error = tx.error
        /\ (tx'.confirmations = tx.confirmations + 1 /\ ~tx.ethereumMetadataCreated) =>
              /\ tx'.attempts = tx.attempts \cup {tx.confirmations}
              /\ tx'.promise = tx.promise
        /\ (tx'.ethereumMetadataCreated /\ ~tx.ethereumMetadataCreated /\ tx.promise = "pending") =>
              /\ tx'.promise = "resolved"
              /\ tx'.value.blockNumber = tx.receipt.blockNumber
              /\ tx'.value.transactionHash = tx.receipt.transactionHash
      ]_vars

\* more attempts were started than can be in flight together, so that one
\* had failed before the last was started, and the submission is resolved
C24_Witness ==
    /\ tx.promise = "resolved"
    /\ tx.ethereumMetadataCreated
    /\ tx.started > MaxInFlight
    /\ tx.attempts = {}
    /\ ~tx.errorFired
    /\ tx.confirmations < CREATING_ETHEREUM_METADATA_MAX_ATTEMPTS

\* C25: a range whose query has failed with another error than 'query
\* returned more than XXX results' fails with that error once the retries
\* are used up; a range that is split fails with the error of a failed half;
\* and the caller of a failed retrieval gets the error and no list of events,
\* whatever the other half has returned.
C25_OtherFailurePropagates ==
    /\ \A p \in DOMAIN tasks :
          LET t == tasks[p]
          IN  t.st = "failed" =>
                /\ t.error = "timeout"
                /\ t.events = <<>>
                /\ IF Append(p, 1) \in DOMAIN tasks
                   THEN \E k \in {1, 2} : /\ tasks[Append(p, k)].st = "failed"
                                          /\ tasks[Append(p, k)].error = t.error
                   ELSE t.attempts = cfg.maxRetries

    /\ \A p \in DOMAIN tasks :
          (Append(p, 1) \in DOMAIN tasks /\ tasks[p].st = "done") =>
              (tasks[Append(p, 1)].st = "done" /\ tasks[Append(p, 2)].st = "done")
    /\ (call.pc = "done" /\ <<>> \in DOMAIN tasks /\ tasks[<<>>].st = "failed") =>
          /\ call.status = "error"
          /\ call.error = tasks[<<>>].error
          /\ call.value = <<>>
          /\ call.events = <<>>

\* one half of the whole range has returned its events and the other has
\* failed on timeouts: the caller has the error
C25_Witness ==
    /\ call.pc = "done"
    /\ call.status = "error"
    /\ call.error = "timeout"
    /\ <<1>> \in DOMAIN tasks
    /\ tasks[<<>>].st = "failed"
    /\ \E k \in {1, 2} :
          /\ tasks[<<k>>].st = "done"
          /\ tasks[<<k>>].events # <<>>
          /\ tasks[<<3 - k>>].st = "failed"

\* C26: a range that the provider has refused with 'query returned more than
\* XXX results' is not sent again: it is split at once, and only a range
\* that has failed otherwise is sent a second time.
C26_OverflowNotReissued ==
    \A p \in DOMAIN tasks :
        LET t == tasks[p]
        IN  /\ t.error = "query returned more than XXX results" => t.attempts = 0
            /\ t.st = "split" => t.attempts = 0

----------------------------------------------------------------------------
(* Claims on the concurrency *)

\* C27: while the events of a listing get their metadata, no more than
\* maxConcurrency of them are being resolved at a time; an event is taken
\* once, its metadata stay as they were created, and the listing that
\* returns has the entry of every event, in the order of the events.
C27_BoundedEnrichment ==
    [][ /\ Cardinality(InFlight) <= cfg.maxConcurrency
        /\ Cardinality(InFlight') <= cfg.maxConcurrency
        /\ (call.pc = "enrich" /\ call'.pc \in {"enrich", "done"}) =>
              /\ Len(lookups') = Len(call.events)
              /\ \A i \in 1..Len(lookups) :
                    /\ lookups[i].st = "done" => lookups'[i] = lookups[i]
                    /\ lookups[i].st = "inflight" => lookups'[i].st \in {"inflight", "done"}
              /\ (call'.pc = "done" /\ call'.status = "ok") =>
                    /\ Len(call'.value) = Len(call.events)
                    /\ \A i \in 1..Len(lookups') :
                          /\ lookups'[i].st = "done"
                          /\ call'.value[i] = lookups'[i].entry
                          /\ call'.value[i].meta.transactionHash = call.events[i].transactionHash
      ]_vars

\* as many metadata as allowed are being resolved, and an event waits
C27_Witness ==
    /\ call.pc = "enrich"
    /\ cfg.maxConcurrency > 1
    /\ Cardinality(InFlight) = cfg.maxConcurrency
    /\ \E i \in 1..Len(lookups) : lookups[i].st = "waiting"

\* C28: the range queries that are with the provider at a time, at whatever
\* depth of the splits, are no more than the configured maxConcurrency.
C28_BoundedRangeQueries ==
    Cardinality({ p \in DOMAIN tasks : tasks[p].st = "querying" }) <= cfg.maxConcurrency

----------------------------------------------------------------------------
(* Claims on the append *)

\* C29: an append anchors its content only once the content store holds the
\* content, and with the size that the content store gives for it; an append
\* that fails on the content store ('Ipfs add request error', 'Ipfs get
\* length request error') has anchored nothing; and an append whose
\* submission fails, fails with 'Smart contract error' and returns no id.
C29_AppendStoresThenSubmits ==
    [][ (facade.op = "append" /\ facade' # facade) =>
          /\ ledger' # ledger =>
                /\ facade.pc = "submit"
                /\ facade.id \in DOMAIN ipfs
                /\ ipfs[facade.id] = facade.content
                /\ Len(ledger') = Len(ledger) + 1
                /\ ledger'[Len(ledger')].returnValues.hash = facade.id
                /\ hexToNumber(ledger'[Len(ledger')].returnValues.feesParameters)
                      = getContentLength(ipfs[facade.id])
          /\ (facade.pc \in {"add", "length"} /\ facade'.status = "error") =>
                /\ ledger' = ledger
                /\ facade'.error \in {"Ipfs add request error", "Ipfs get length request error"}
                /\ facade'.returned = facade.returned
          /\ (facade.pc = "submit" /\ facade'.op = "append") =>
                /\ facade'.pc = "done"
                /\ facade'.status = "error" =>
                      /\ facade'.error = "Smart contract error"
                      /\ facade'.returned = facade.returned
                /\ facade'.status = "ok" =>
                      /\ ledger' # ledger
                      /\ [id |-> facade.id, content |-> facade.content] \in facade'.returned
      ]_vars

\* the content is in the content store and its submission has failed
C29_Witness ==
    /\ facade.op = "append"
    /\ facade.pc = "done"
    /\ facade.status = "error"
    /\ facade.error = "Smart contract error"
    /\ facade.id \in DOMAIN ipfs
    /\ ipfs[facade.id] = facade.content
    /\ facade.size = getContentLength(facade.content)
    /\ \A r \in facade.returned : r.id # facade.id

\* the content store has the content and has not given its size: nothing is
\* anchored
C29_WitnessNoSize ==
    /\ facade.op = "append"
    /\ facade.status = "error"
    /\ facade.error = "Ipfs get length request error"
    /\ facade.id \in DOMAIN ipfs
    /\ \A i \in 1..Len(ledger) : ledger[i].returnValues.hash # facade.id

\* C30: the fee is read through the retry: a submission is rejected on the
\* timeout of the fee read only after the fee was read maxRetries + 1 times.
C30_FeeReadRetried ==
    (tx.promise = "rejected" /\ tx.error = "Web3 getFeesAmount connection timeout") =>
        tx.feeReads = cfg.maxRetries + 1

----------------------------------------------------------------------------
(* Claims on the head of the chain *)

\* C31: the head is read again by every call: the time boundaries of a
\* listing are resolved against the head as it is when the listing is
\* called, and the confirmations of a block are counted from the head as it
\* is when the metadata are created.
C31_HeadReadByEveryQuery ==
    [][ /\ (call.pc = "idle" /\ call'.op = "list") =>
              /\ call'.resolvedFrom = fromBlockOf(call'.from, cfg.creationBlock, head)
              /\ call'.resolvedTo = toBlockOf(call'.to, cfg.creationBlock, head)
        /\ \A i \in 1..Len(lookups') :
              (i <= Len(lookups) /\ lookups[i].st # "done" /\ lookups'[i].st = "done") =>
                  lookups'[i].entry.meta.blockConfirmation
                      = head - lookups'[i].entry.meta.blockNumber
      ]_vars

\* C32: a call whose toBlock is the tag 'latest' goes on with the number of
\* the latest block, whatever that number, or fails with 'Cannot get the
\* number of the block' when the block cannot be fetched, without having
\* sent a range query.
C32_NumberOfTaggedBlock ==
    [][ (call.pc = "resolve" /\ call'.pc # "resolve" /\ call.toBlock.tag = "latest") =>
          \/ /\ call'.pc = "events"
             /\ call'.toBlockNumber = head
             /\ issued' = Issue(NoRanges, call.fromBlock, head)
          \/ /\ call'.pc = "done"
             /\ call'.error = "Cannot get the number of the block"
             /\ issued' = NoRanges
      ]_vars

\* C33: a time boundary that lies outside the chain resolves to the nearest
\* end of the chain: a 'from' or a 'to' before the timestamp of the creation
\* block gives the creation block, and a 'from' or a 'to' after the
\* timestamp of the head gives the head.
C33_NearestBoundary ==
    call.op = "list" =>
        /\ (call.from # 0 /\ call.from < BlockTimestamp(cfg.creationBlock)) =>
              call.resolvedFrom = cfg.creationBlock
        /\ (call.from # 0 /\ call.from > BlockTimestamp(head)) => call.resolvedFrom = head
        /\ (call.to # 0 /\ call.to < BlockTimestamp(cfg.creationBlock)) =>
              call.resolvedTo = cfg.creationBlock
        /\ (call.to # 0 /\ call.to > BlockTimestamp(head)) => call.resolvedTo = head
        /\ call.from # 0 => call.resolvedFrom \in Known
        /\ call.to # 0 => call.resolvedTo \in Known

\* a listing from a time after the head's has returned the event of the head,
\* on a chain of several blocks
C33_Witness ==
    /\ call.op = "list"
    /\ call.status = "ok"
    /\ head > cfg.creationBlock
    /\ call.from > BlockTimestamp(head)
    /\ call.resolvedFrom = head
    /\ Len(call.value) = 1
    /\ call.value[1].meta.blockNumber = head

\* a listing up to a time before the creation block's has resolved its
\* toBlock to the creation block
C33_WitnessBefore ==
    /\ call.op = "list"
    /\ call.to # 0
    /\ call.to < BlockTimestamp(cfg.creationBlock)
    /\ call.resolvedTo = cfg.creationBlock
    /\ call.status = "ok"

\* C34: a submission of which one createEthereumMetaData has succeeded, on
\* whatever confirmation and in whatever order the attempts have settled,
\* has not ended with 'Maximum number of confirmation reached'.
C34_SuccessResolves ==
    tx.ethereumMetadataCreated =>
        ~(tx.promise = "rejected" /\ tx.error = "Maximum number of confirmation reached")

\* C35: the entries a listing returns are those of the NewHash events it
\* enriched, one for each and in the order of these events, in whatever order
\* the metadata of the events were created.
C35_EntriesInEventOrder ==
    (call.op = "list" /\ call.status = "ok" /\ call.value # <<>>) =>
        /\ Len(call.value) = Len(call.events)
        /\ \A i \in 1..Len(call.events) :
              /\ call.events[i].event = "NewHash"
              /\ call.value[i] = lookups[i].entry
              /\ call.value[i].hash = call.events[i].returnValues.hash
              /\ call.value[i].feesParameters.contentSize
                    = hexToNumber(call.events[i].returnValues.feesParameters)
              /\ call.value[i].meta.blockNumber = call.events[i].blockNumber
              /\ call.value[i].meta.transactionHash = call.events[i].transactionHash
        /\ \A i, j \in 1..Len(call.value) :
              i < j => call.value[i].meta.transactionHash < call.value[j].meta.transactionHash

\* the metadata of the second event were created before those of the first:
\* the head the first entry was confirmed against is a later one
C35_Witness ==
    /\ call.op = "list"
    /\ call.status = "ok"
    /\ Len(call.value) >= 2
    /\ call.value[1].meta.transactionHash # call.value[2].meta.transactionHash
    /\ call.value[1].meta.blockConfirmation + call.value[1].meta.blockNumber
          > call.value[2].meta.blockConfirmation + call.value[2].meta.blockNumber

\* C36: every range query of a call is for blocks from the creation block
\* on, and lies within the range the call started with: it begins and ends
\* between the fromBlock and the toBlock of the first query.
C36_RangesWithinQuery ==
    (call.pc \in {"events", "meta", "enrich", "done"} /\ <<>> \in DOMAIN tasks) =>
        \A r \in DOMAIN issued :
            /\ r[1] >= cfg.creationBlock
            /\ r[1] >= tasks[<<>>].fromBlock
            /\ r[1] <= tasks[<<>>].toBlock
            /\ r[2] >= tasks[<<>>].fromBlock
            /\ r[2] <= tasks[<<>>].toBlock

C38_CostOfSubmission ==
    [][ (tx.promise = "pending" /\ tx'.promise = "resolved") =>
            /\ tx'.feeReads = 1
            /\ tx'.sends = 1
            /\ tx'.gasPriceToUse = (IF gasPriceGiven(tx.gasPrice) THEN tx.gasPrice ELSE 2)
            /\ tx'.value.fee = tx.fee
            /\ tx'.value.gasFee = tx.receipt.gasUsed * tx.gasPriceToUse
            /\ tx'.value.cost = tx'.value.gasFee + tx'.value.fee ]_vars

\* a submission with a fee and a given gas price has its metadata
C38_Witness ==
    /\ tx.promise = "resolved"
    /\ tx.gasPrice = 3
    /\ tx.fee = 100
    /\ tx.value.gasFee = 63
    /\ tx.value.cost = 163

====
